---- MODULE Spec2Model ----
(***************************************************************************)
(* TransactionTracer of turbo/jsonrpc/otterscan_trace_transaction.go.      *)
(*                                                                         *)
(* The tracer is driven by the EVM through CaptureStart, CaptureEnter,     *)
(* CaptureExit and CaptureEnd.  *TraceEntry pointers are modelled as       *)
(* indices into a heap of entries, so that the sharing of one entry        *)
(* between t.Results and t.stack is kept.                                  *)
(***************************************************************************)
EXTENDS Integers, Sequences, FiniteSets

\* ------------------------------------------------------------------ bounds
\* Longest notification stream of an arbitrary driver (Spec).
MaxEvents == 3
\* Longest notification stream of a protocol-abiding engine (SpecWF).
MaxWFEvents == 8
\* Deepest nesting opened by the protocol-abiding engine (SpecWF).
MaxWFDepth == 3
\* Longest notification stream with every opcode and value (SpecArgs).
MaxArgEvents == 3

\* ------------------------------------------------------------------ values
\* A Go []byte: a nil slice, or a slice with contents.  buf names the
\* backing array: 0 for one nobody else writes to, 1 for the buffer the
\* engine owns and may overwrite after a notification returns.
NilBytes == [nil |-> TRUE, bytes |-> <<>>, buf |-> 0]

Bytes(b) == [nil |-> FALSE, bytes |-> b, buf |-> 0]

\* A Go *uint256.Int / *big.Int / *hexutil.Big: a nil pointer, or a number.
NilInt == [nil |-> TRUE, n |-> 0]

Int256(n) == [nil |-> FALSE, n |-> n]

\* Fault: the slice is stored as passed, without make and copy.
MakeCopy_Alias(b) == b

\* make([]byte, len(b)); copy(_, b): never nil, even for a nil argument,
\* and backed by a fresh array.
MakeCopy(b) == [nil |-> FALSE, bytes |-> b.bytes, buf |-> 0]

\* (*uint256.Int).ToBig (github.com/holiman/uint256): nil for a nil
\* receiver, else the same number.
ToBig(value) == IF value.nil THEN NilInt ELSE [nil |-> FALSE, n |-> value.n]

\* Fault: _value is left nil for a nil value.
OwnedValue_NilKept(value) == ToBig(value)

\* _value := new(big.Int); if value != nil { _value.Set(value.ToBig()) }
OwnedValue(value) == IF ~value.nil THEN ToBig(value) ELSE [nil |-> FALSE, n |-> 0]

\* vm.OpCode values that reach the tracer; EXTCALL stands for any opcode
\* that none of the branches names.
CALL == "CALL"

STATICCALL == "STATICCALL"

DELEGATECALL == "DELEGATECALL"

CALLCODE == "CALLCODE"

CREATE == "CREATE"

CREATE2 == "CREATE2"

SELFDESTRUCT == "SELFDESTRUCT"

EXTCALL == "EXTCALL"

OpCodes == {CALL, STATICCALL, DELEGATECALL, CALLCODE, CREATE, CREATE2, SELFDESTRUCT, EXTCALL}

TraceEntry(type, dep, from, to, value, input, output) ==
    [Type |-> type, Depth |-> dep, From |-> from, To |-> to,
     Value |-> value, Input |-> input, Output |-> output]

\* ------------------------------------------------------------------ tracer
\* A tracer is the record [heap, Results, depth, stack, panicked]: heap holds
\* every allocated TraceEntry, Results and stack hold pointers (heap indices).

NewTransactionTracer ==
    [heap |-> <<>>, Results |-> <<>>, depth |-> 0, stack |-> <<>>, panicked |-> FALSE]

\* Fault: the self-destruct is given its parent's depth.
SelfDestructDepth_NoIncrement(last) == last.Depth

\* last.Depth + 1
SelfDestructDepth(last) == last.Depth + 1

\* Fault: STATICCALL and DELEGATECALL store _value like CALL.
NoValue_Kept(value) == OwnedValue(value)

\* The nil literal in the Value position of the STATICCALL and DELEGATECALL
\* branches, whatever value is.
NoValue(value) == NilInt

\* The entry of the branch taken for typ; the SELFDESTRUCT branch reads
\* the last element of t.Results.
NewEntry(t, typ, from, to, input, value) ==
    LET inputCopy == MakeCopy(input)
        _value == OwnedValue(value)
    IN  CASE typ = CALL -> TraceEntry("CALL", t.depth, from, to, _value, inputCopy, NilBytes)
          [] typ = STATICCALL -> TraceEntry("STATICCALL", t.depth, from, to, NoValue(value), inputCopy, NilBytes)
          [] typ = DELEGATECALL -> TraceEntry("DELEGATECALL", t.depth, from, to, NoValue(value), inputCopy, NilBytes)
          [] typ = CALLCODE -> TraceEntry("CALLCODE", t.depth, from, to, _value, inputCopy, NilBytes)
          [] typ = CREATE -> TraceEntry("CREATE", t.depth, from, to, ToBig(value), inputCopy, NilBytes)
          [] typ = CREATE2 -> TraceEntry("CREATE2", t.depth, from, to, ToBig(value), inputCopy, NilBytes)
          [] typ = SELFDESTRUCT ->
                TraceEntry("SELFDESTRUCT", SelfDestructDepth(t.heap[t.Results[Len(t.Results)]]),
                           from, to, ToBig(value), NilBytes, NilBytes)
          [] OTHER -> TraceEntry("UNKNOWN", t.depth, from, to, ToBig(value), inputCopy, NilBytes)

\* Fault: the entry is put in front of the output sequence.
AppendResults_Prepend(results, precompile, p) ==
    IF ~precompile THEN <<p>> \o results ELSE results

\* Fault: the precompile test is dropped.
AppendResults_Always(results, precompile, p) == Append(results, p)

\* if !precompile { t.Results = append(t.Results, entry) }
AppendResults(results, precompile, p) ==
    IF ~precompile THEN Append(results, p) ELSE results

\* Fault: a self-destruct is not stacked.
PushStack_SkipSelfDestruct(stk, typ, precompile, p) ==
    IF typ = SELFDESTRUCT THEN stk ELSE Append(stk, p)

\* Fault: only the opcodes the branches name are stacked.
PushStack_SkipUnknown(stk, typ, precompile, p) ==
    IF typ \in {CALL, STATICCALL, DELEGATECALL, CALLCODE, CREATE, CREATE2, SELFDESTRUCT}
    THEN Append(stk, p) ELSE stk

\* Fault: the push is moved inside the precompile test.
PushStack_SkipPrecompile(stk, typ, precompile, p) ==
    IF precompile THEN stk ELSE Append(stk, p)

\* t.stack = append(t.stack, entry): unconditional, whatever typ and
\* precompile are.
PushStack(stk, typ, precompile, p) == Append(stk, p)

\* t.Results[len(t.Results)-1] panics (index out of range) on empty Results.
captureStartOrEnter(t, typ, from, to, precompile, input, value) ==
    IF typ = SELFDESTRUCT /\ Len(t.Results) = 0
    THEN [t EXCEPT !.panicked = TRUE]
    ELSE LET p == Len(t.heap) + 1
         IN  [t EXCEPT !.heap = Append(@, NewEntry(t, typ, from, to, input, value)),
                       !.Results = AppendResults(@, precompile, p),
                       !.stack = PushStack(@, typ, precompile, p)]

\* t.depth = 0
StartDepth(d) == 0

\* Fault: the increment is forgotten.
EnterDepth_NoIncrement(d) == d

\* t.depth++
EnterDepth(d) == d + 1

\* Fault: the decrement is forgotten.
ExitDepth_NoDecrement(d) == d

\* t.depth--
ExitDepth(d) == d - 1

CaptureStart(t, from, to, precompile, input, value) ==
    captureStartOrEnter([t EXCEPT !.depth = StartDepth(@)], CALL, from, to, precompile, input, value)

CaptureEnter(t, typ, from, to, precompile, input, value) ==
    captureStartOrEnter([t EXCEPT !.depth = EnterDepth(@)], typ, from, to, precompile, input, value)

\* Fault: the oldest frame is taken instead of the newest.
PopTarget_Bottom(stk) == stk[1]

\* lastIdx := len(t.stack) - 1; pop := t.stack[lastIdx]
PopTarget(stk) == stk[Len(stk)]

\* Fault: an empty payload is not stored.
SetOutput_SkipEmpty(heap, pop, output) ==
    IF Len(output.bytes) = 0 THEN heap ELSE [heap EXCEPT ![pop].Output = MakeCopy(output)]

\* Fault: the popped entry is rebuilt, losing its input.
SetOutput_DropsInput(heap, pop, output) ==
    [heap EXCEPT ![pop].Output = MakeCopy(output), ![pop].Input = NilBytes]

\* outputCopy := make([]byte, len(output)); copy(outputCopy, output)
\* pop.Output = outputCopy
SetOutput(heap, pop, output) == [heap EXCEPT ![pop].Output = MakeCopy(output)]

\* Fault: a close on an empty stack returns silently.
captureEndOrExit_Silent(t, output) ==
    IF Len(t.stack) = 0
    THEN t
    ELSE [t EXCEPT !.depth = ExitDepth(@),
                   !.stack = SubSeq(t.stack, 1, Len(t.stack) - 1),
                   !.heap = SetOutput(@, PopTarget(t.stack), output)]

\* t.depth-- comes first; t.stack[lastIdx] panics (index out of range) on an
\* empty stack, with the decrement already done.
captureEndOrExit(t, output) ==
    LET t1 == [t EXCEPT !.depth = ExitDepth(@)]
    IN  IF Len(t.stack) = 0
        THEN [t1 EXCEPT !.panicked = TRUE]
        ELSE [t1 EXCEPT !.stack = SubSeq(t.stack, 1, Len(t.stack) - 1),
                        !.heap = SetOutput(@, PopTarget(t.stack), output)]

CaptureExit(t, output) == captureEndOrExit(t, output)

CaptureEnd(t, output) == captureEndOrExit(t, output)

\* ------------------------------------------------------------------ state
VARIABLES
    heap,      \* every *TraceEntry allocated so far; a pointer is an index
    Results,   \* t.Results: pointers, in append order
    depth,     \* t.depth
    stack,     \* t.stack: pointers, top last
    panicked,  \* a runtime panic unwound the tracer's caller
    returned,  \* what TraceTransaction returned, once it has
    opens,     \* per allocated entry: the notification that opened it
    phase,     \* the engine's place in its protocol: idle, running, ended
    wf,        \* the notifications so far obey the engine's protocol
    last,      \* the latest notification
    ref,       \* a second tracer, fed the stream without precompiled enters
    nev,       \* number of notifications so far
    buf        \* the contents of the engine's own byte buffer

vars == <<heap, Results, depth, stack, panicked, returned, opens, phase, wf, last, ref, nev, buf>>

Tracer == [heap |-> heap, Results |-> Results, depth |-> depth, stack |-> stack, panicked |-> panicked]

Install(t2) ==
    /\ heap' = t2.heap
    /\ Results' = t2.Results
    /\ depth' = t2.depth
    /\ stack' = t2.stack
    /\ panicked' = t2.panicked

\* The calls the engine has opened and not yet closed.
OpenSet == {i \in 1..Len(opens) : ~opens[i].closed}

Max(S) == CHOOSE x \in S : \A y \in S : y <= x

\* The call a close notification belongs to: the most recently opened one
\* that is still open.
TopOpen == Max(OpenSet)

Notification(op, typ, from, to, precompile, input, value, output) ==
    [op |-> op, typ |-> typ, from |-> from, to |-> to, precompile |-> precompile,
     input |-> input, value |-> value, output |-> output]

OpenRecord(start, typ, from, to, precompile, input, value) ==
    [start |-> start, typ |-> typ, from |-> from, to |-> to, precompile |-> precompile,
     input |-> input, value |-> value,
     enclosing |-> Cardinality(OpenSet),
     hidden |-> Cardinality({i \in OpenSet : opens[i].precompile /\ ~opens[i].start}),
     prevLast |-> IF Len(Results) = 0 THEN 0 ELSE Results[Len(Results)],
     parent |-> IF OpenSet = {} THEN 0 ELSE TopOpen,
     closed |-> FALSE, payload |-> NilBytes]

Init ==
    /\ heap = NewTransactionTracer.heap
    /\ Results = NewTransactionTracer.Results
    /\ depth = NewTransactionTracer.depth
    /\ stack = NewTransactionTracer.stack
    /\ panicked = NewTransactionTracer.panicked
    /\ returned = [done |-> FALSE, nil |-> TRUE, results |-> <<>>, err |-> FALSE]
    /\ opens = <<>>
    /\ phase = "idle"
    /\ wf = TRUE
    /\ last = Notification("none", "", "", "", FALSE, NilBytes, NilInt, NilBytes)
    /\ ref = NewTransactionTracer
    /\ nev = 0
    /\ buf = <<1>>

\* The engine is still inside api.runTracer.
Tracing == ~panicked /\ ~returned.done

\* ------------------------------------------------------------------ actions
OnStart(from, to, precompile, input, value) ==
    /\ Tracing
    /\ LET t2 == CaptureStart(Tracer, from, to, precompile, input, value)
       IN  /\ Install(t2)
           /\ opens' = IF t2.panicked THEN opens
                       ELSE Append(opens, OpenRecord(TRUE, CALL, from, to, precompile, input, value))
    /\ ref' = IF ref.panicked THEN ref ELSE CaptureStart(ref, from, to, precompile, input, value)
    /\ phase' = "running"
    /\ wf' = (wf /\ phase = "idle")
    /\ last' = Notification("start", CALL, from, to, precompile, input, value, NilBytes)
    /\ nev' = nev + 1
    /\ UNCHANGED <<returned, buf>>

OnEnter(typ, from, to, precompile, input, value) ==
    /\ Tracing
    /\ LET t2 == CaptureEnter(Tracer, typ, from, to, precompile, input, value)
       IN  /\ Install(t2)
           /\ opens' = IF t2.panicked THEN opens
                       ELSE Append(opens, OpenRecord(FALSE, typ, from, to, precompile, input, value))
    /\ ref' = IF ref.panicked \/ precompile THEN ref
              ELSE CaptureEnter(ref, typ, from, to, precompile, input, value)
    /\ wf' = (wf /\ phase = "running")
    /\ last' = Notification("enter", typ, from, to, precompile, input, value, NilBytes)
    /\ nev' = nev + 1
    /\ UNCHANGED <<returned, phase, buf>>

\* The bookkeeping shared by the two close notifications.
Close(t2, op, output) ==
    /\ Install(t2)
    /\ opens' = IF OpenSet = {} THEN opens
                ELSE [opens EXCEPT ![TopOpen].closed = TRUE, ![TopOpen].payload = output]
    /\ ref' = IF ref.panicked \/ (OpenSet # {} /\ opens[TopOpen].precompile /\ ~opens[TopOpen].start)
              THEN ref
              ELSE captureEndOrExit(ref, output)
    /\ last' = Notification(op, "", "", "", FALSE, NilBytes, NilInt, output)
    /\ nev' = nev + 1
    /\ UNCHANGED <<returned, buf>>

OnExit(output) ==
    /\ Tracing
    /\ Close(CaptureExit(Tracer, output), "exit", output)
    /\ wf' = (wf /\ phase = "running" /\ Cardinality(OpenSet) >= 2)
    /\ UNCHANGED phase

OnEnd(output) ==
    /\ Tracing
    /\ Close(CaptureEnd(Tracer, output), "end", output)
    /\ wf' = (wf /\ phase = "running" /\ Cardinality(OpenSet) = 1)
    /\ phase' = "ended"

\* TraceTransaction's two ways out once api.runTracer is back: err is
\* whether runTracer (or BeginTemporalRo) returned an error.
ReturnValue(results, err) ==
    IF err THEN [done |-> TRUE, nil |-> TRUE, results |-> <<>>, err |-> TRUE]
    ELSE [done |-> TRUE, nil |-> FALSE, results |-> results, err |-> FALSE]

TraceTransaction(err) ==
    /\ Tracing
    /\ returned' = ReturnValue(Results, err)
    /\ wf' = (wf /\ (err \/ phase = "ended"))
    /\ UNCHANGED <<heap, Results, depth, stack, panicked, opens, phase, last, ref, nev, buf>>

\* What a slice holds once the array behind it holds content: a slice of
\* the engine's buffer follows the buffer, any other slice keeps its bytes.
AfterWrite(b, content) == IF b.buf = 1 THEN [b EXCEPT !.bytes = content] ELSE b

EntriesAfterWrite(h, content) ==
    [p \in 1..Len(h) |-> [h[p] EXCEPT !.Input = AfterWrite(@, content),
                                      !.Output = AfterWrite(@, content)]]

\* The engine overwrites its buffer between two notifications.
EngineWrite(content) ==
    /\ content # buf
    /\ buf' = content
    /\ heap' = EntriesAfterWrite(heap, content)
    /\ ref' = [ref EXCEPT !.heap = EntriesAfterWrite(@, content)]
    /\ UNCHANGED <<Results, depth, stack, panicked, returned, opens, phase, wf, last, nev>>

\* ------------------------------------------------------------------ inputs
Routes == {<<"A", "B">>, <<"B", "C">>}

Outputs == {Bytes(<<>>), Bytes(<<1, 2>>)}

\* An arbitrary driver: any notification at any time.
Next ==
    \/ \E r \in Routes, pre \in BOOLEAN :
          nev < MaxEvents /\ OnStart(r[1], r[2], pre, Bytes(<<>>), Int256(0))
    \/ \E typ \in {CALL, SELFDESTRUCT, EXTCALL}, r \in Routes, pre \in BOOLEAN :
          nev < MaxEvents /\ OnEnter(typ, r[1], r[2], pre, Bytes(<<1>>), Int256(1))
    \/ \E o \in Outputs : nev < MaxEvents /\ OnExit(o)
    \/ \E o \in Outputs : nev < MaxEvents /\ OnEnd(o)
    \/ \E err \in BOOLEAN : TraceTransaction(err)

Spec == Init /\ [][Next]_vars

\* An engine that obeys its protocol: one start, nested enter/exit pairs,
\* one end, then the return.
NextWF ==
    \/ \E r \in Routes, pre \in BOOLEAN :
          nev < MaxWFEvents /\ OnStart(r[1], r[2], pre, Bytes(<<>>), Int256(0)) /\ wf'
    \/ \E typ \in {CALL, SELFDESTRUCT}, pre \in BOOLEAN :
          /\ nev < MaxWFEvents
          /\ Cardinality(OpenSet) < MaxWFDepth
          /\ OnEnter(typ, "B", "C", pre, Bytes(<<1>>), Int256(1))
          /\ wf'
    \/ \E o \in Outputs : nev < MaxWFEvents /\ OnExit(o) /\ wf'
    \/ \E o \in Outputs : nev < MaxWFEvents /\ OnEnd(o) /\ wf'
    \/ \E err \in BOOLEAN : TraceTransaction(err) /\ wf'

SpecWF == Init /\ [][NextWF]_vars

\* The slice of its buffer the engine passes to a notification.
EngineSlice == [nil |-> FALSE, bytes |-> buf, buf |-> 1]

BufContents == {<<1>>, <<1, 2>>}

Values == {NilInt, Int256(0), Int256(7)}

\* Any caller again, with every opcode and with present and absent values.
NextArgs ==
    \/ \E input \in {NilBytes, EngineSlice}, value \in Values :
          nev < MaxArgEvents /\ OnStart("A", "B", FALSE, input, value)
    \/ \E typ \in OpCodes, value \in Values :
          nev < MaxArgEvents /\ OnEnter(typ, "B", "C", FALSE, EngineSlice, value)
    \/ \E o \in {NilBytes, EngineSlice} : nev < MaxArgEvents /\ OnExit(o)
    \/ \E o \in {NilBytes, EngineSlice} : nev < MaxArgEvents /\ OnEnd(o)

SpecArgs == Init /\ [][NextArgs]_vars

\* Any caller that passes slices of the engine's buffer, with the engine
\* overwriting that buffer between notifications.
NextBuf ==
    \/ \E input \in {NilBytes, EngineSlice} :
          nev < MaxArgEvents /\ OnStart("A", "B", FALSE, input, Int256(0))
    \/ \E typ \in {CALL, SELFDESTRUCT}, pre \in BOOLEAN :
          nev < MaxArgEvents /\ OnEnter(typ, "B", "C", pre, EngineSlice, Int256(1))
    \/ \E o \in {NilBytes, EngineSlice} : nev < MaxArgEvents /\ OnExit(o)
    \/ \E o \in {NilBytes, EngineSlice} : nev < MaxArgEvents /\ OnEnd(o)
    \/ \E content \in BufContents : EngineWrite(content)

SpecBuf == Init /\ [][NextBuf]_vars

\* ------------------------------------------------------------------ claims
Range(f) == {f[i] : i \in 1..Len(f)}

\* The entries a sequence of pointers designates, in order.
Deref(h, ptrs) == [i \in 1..Len(ptrs) |-> h[ptrs[i]]]

\* The step is a notification (not the return of TraceTransaction).
Notified == nev' = nev + 1

IsClose(n) == n.op \in {"exit", "end"}

IsSelfDestruct(n) == n.op = "enter" /\ n.typ = SELFDESTRUCT

\* C1: in a well-formed stream no on-exit/on-end finds the pending stack
\* empty, and after the final on-end the pending stack is empty.
C1_StackBalanced ==
    /\ [][(Notified /\ IsClose(last') /\ wf') => (stack # <<>> /\ ~panicked')]_vars
    /\ [](wf /\ phase = "ended" => stack = <<>>)

\* A finished well-formed stream that held a precompiled call and a
\* self-destruct.
C1_Witness ==
    /\ wf /\ phase = "ended" /\ stack = <<>> /\ ~panicked
    /\ \E p, q \in 1..Len(opens) :
          /\ opens[p].precompile /\ ~opens[p].start
          /\ opens[q].typ = SELFDESTRUCT

\* C2: in a well-formed stream every entry created by on-start/on-enter of a
\* kind other than SELFDESTRUCT has as depth the number of calls that were
\* open when it was created, and the on-start entry has depth 0.
C2_DepthIsNesting ==
    wf => \A p \in 1..Len(heap) :
            /\ opens[p].typ # SELFDESTRUCT => heap[p].Depth = opens[p].enclosing
            /\ opens[p].start => heap[p].Depth = 0

\* An entry at depth 2 opened after an earlier precompiled sibling was closed.
C2_Witness ==
    /\ wf
    /\ \E p, q \in 1..Len(heap) :
          /\ q < p /\ opens[q].closed /\ opens[q].precompile /\ ~opens[p].closed
          /\ opens[p].typ # SELFDESTRUCT /\ heap[p].Depth = 2

\* C3: each on-exit/on-end assigns (a copy of) its payload to the entry of
\* the most recently opened call that is still open; after a well-formed
\* stream every entry holds the payload of its own close.
C3_LifoPairing ==
    wf => \A p \in 1..Len(heap) :
            /\ opens[p].closed => heap[p].Output = Bytes(opens[p].payload.bytes)
            /\ ~opens[p].closed => heap[p].Output = NilBytes

\* Scenario B: onStart(A->B), onEnter(Call, B->C), onExit([1,2]), onEnd([]).
C3_Witness ==
    /\ wf /\ phase = "ended" /\ nev = 4
    /\ Deref(heap, Results) =
          << TraceEntry("CALL", 0, "A", "B", Int256(0), Bytes(<<>>), Bytes(<<>>)),
             TraceEntry("CALL", 1, "B", "C", Int256(1), Bytes(<<1>>), Bytes(<<1, 2>>)) >>

\* C4: no entry opened with precompile = true is in Results, and the stack
\* holds exactly the open calls in opening order, precompiled or not.
C4_PrecompileHiddenButStacked ==
    /\ \A p \in 1..Len(opens) : opens[p].precompile => p \notin Range(Results)
    /\ \A p \in 1..Len(opens) : ~opens[p].precompile => p \in Range(Results)
    /\ ~panicked =>
          /\ Range(stack) = OpenSet
          /\ \A i, j \in 1..Len(stack) : i < j => stack[i] < stack[j]

\* A precompiled call on the stack between two visible ones.
C4_Witness ==
    /\ Len(stack) = 3
    /\ ~opens[stack[1]].precompile /\ opens[stack[2]].precompile /\ ~opens[stack[3]].precompile
    /\ Results = <<stack[1], stack[3]>>

NoSelfDestruct == \A p \in 1..Len(opens) : opens[p].typ # SELFDESTRUCT

\* C5 as claimed: after a well-formed stream without self-destructs the
\* output sequence is identical to the one the same stream produces with
\* every precompiled on-enter and its matching on-exit deleted.
C5_SameAsWithoutPrecompiles ==
    (wf /\ phase = "ended" /\ NoSelfDestruct) =>
        Deref(heap, Results) = Deref(ref.heap, ref.Results)

\* C5 as amended: the two output sequences agree entry by entry in every
\* field but the depth, and the depth of an entry exceeds the one of the
\* stream without precompiled calls by the number of precompiled calls that
\* were open when it was created (so they are identical when no call is
\* opened inside a precompiled call).
C5_SameUpToHiddenDepth ==
    (wf /\ phase = "ended" /\ NoSelfDestruct) =>
        /\ ~panicked /\ ~ref.panicked
        /\ Len(Results) = Len(ref.Results)
        /\ \A i \in 1..Len(Results) :
              heap[Results[i]] =
                 [ref.heap[ref.Results[i]] EXCEPT !.Depth = @ + opens[Results[i]].hidden]

\* A finished stream with a closed precompiled call followed by a visible
\* sibling, and with a visible call inside a precompiled one.
C5_Witness ==
    /\ wf /\ phase = "ended" /\ NoSelfDestruct /\ ~panicked
    /\ \E p, q \in 1..Len(opens) :
          /\ p < q /\ opens[p].precompile /\ ~opens[p].start
          /\ ~opens[q].precompile /\ opens[q].hidden = 0 /\ opens[q].enclosing = 1
    /\ \E q \in 1..Len(opens) : ~opens[q].precompile /\ opens[q].hidden = 1

ScenarioD ==
    /\ nev = 3 /\ Len(opens) = 2
    /\ opens[1].start /\ opens[1].from = "A" /\ opens[1].to = "B" /\ ~opens[1].precompile
    /\ opens[2].typ = SELFDESTRUCT /\ opens[2].from = "B" /\ opens[2].to = "C"
    /\ ~opens[2].precompile
    /\ last.op = "end" /\ last.output = Bytes(<<>>)

SelfDestructEntry(prev, n) ==
    TraceEntry("SELFDESTRUCT", prev.Depth + 1, n.from, n.to, ToBig(n.value), NilBytes, NilBytes)

\* C8 as claimed: each self-destruct notification (arriving with a non-empty
\* output sequence) appends one SELFDESTRUCT entry whose depth is the depth
\* of the previously last entry plus one, with the notification's from/to
\* and no input.
C8_SelfDestructAppended ==
    [][(Notified /\ IsSelfDestruct(last') /\ Results # <<>>) =>
          /\ Len(Results') = Len(Results) + 1
          /\ SubSeq(Results', 1, Len(Results)) = Results
          /\ heap'[Results'[Len(Results')]] =
                SelfDestructEntry(heap[Results[Len(Results)]], last')]_vars

\* C8 as amended: the same, for notifications with precompile = false; with
\* precompile = true the output sequence is left as it is.
C8_VisibleSelfDestructAppended ==
    [][(Notified /\ IsSelfDestruct(last') /\ Results # <<>>) =>
          IF last'.precompile
          THEN Results' = Results
          ELSE /\ Len(Results') = Len(Results) + 1
               /\ SubSeq(Results', 1, Len(Results)) = Results
               /\ heap'[Results'[Len(Results')]] =
                     SelfDestructEntry(heap[Results[Len(Results)]], last')]_vars

\* A self-destruct reported inside a nested visible call: its entry is last
\* in the output sequence, at depth 2.
C8_Witness ==
    /\ IsSelfDestruct(last) /\ ~last.precompile /\ ~panicked
    /\ Len(Results) = 3
    /\ heap[Results[3]].Type = "SELFDESTRUCT" /\ heap[Results[3]].Depth = 2
    /\ heap[Results[2]].Depth = 1

\* C9: an on-exit or on-end received while the pending stack is empty does
\* not complete normally: it ends in a (runtime) panic.
C9_CloseOnEmptyPanics ==
    [][(Notified /\ IsClose(last') /\ stack = <<>>) => panicked']_vars

\* A close that found the stack empty, after at least one other notification.
C9_Witness == panicked /\ IsClose(last) /\ stack = <<>> /\ nev >= 2

\* C10 as claimed: when TraceTransaction returns while the pending stack is
\* not empty, it returns an error and not the output sequence.
C10_UnclosedCallsReported ==
    (returned.done /\ stack # <<>>) => (returned.err /\ returned.nil)

\* C11: over a well-formed stream an entry changes only at the on-exit or
\* on-end that closes its own call, that change sets its Output and nothing
\* else, and it happens at most once (the entry had no output before, and
\* its call is closed from then on).
C11_MutatedOnceAtOwnClose ==
    [][wf' => \A p \in 1..Len(heap) :
          heap'[p] # heap[p] =>
             /\ Notified /\ IsClose(last')
             /\ ~opens[p].closed /\ p = TopOpen /\ opens'[p].closed
             /\ heap[p].Output = NilBytes
             /\ heap'[p] = [heap[p] EXCEPT !.Output = Bytes(last'.output.bytes)]]_vars

\* An on-exit has just set the output of an entry that is not the last of
\* the output sequence, whose later neighbour was closed before it.
C11_Witness ==
    /\ wf /\ last.op = "exit" /\ Len(Results) >= 3
    /\ LET p == Results[2]
           q == Results[3]
       IN  /\ opens[p].closed /\ opens[q].closed /\ Len(stack) = 1
           /\ opens[q].parent = p
           /\ heap[p].Output = Bytes(<<1, 2>>) /\ heap[q].Output = Bytes(<<>>)

\* C12 as claimed: the Value of a CALL or CALLCODE entry is absent exactly
\* when the supplied value is absent, and is the supplied amount otherwise.
C12_ValueAbsentIffSupplied ==
    \A p \in 1..Len(heap) :
        opens[p].typ \in {CALL, CALLCODE} =>
           /\ heap[p].Value.nil <=> opens[p].value.nil
           /\ ~opens[p].value.nil => heap[p].Value = Int256(opens[p].value.n)

\* C12 as amended: the Value of a CALL or CALLCODE entry is never absent: it
\* is the supplied amount, and zero when the supplied value is absent.
C12_ValueZeroWhenAbsent ==
    \A p \in 1..Len(heap) :
        opens[p].typ \in {CALL, CALLCODE} =>
           heap[p].Value = Int256(IF opens[p].value.nil THEN 0 ELSE opens[p].value.n)

\* An on-start without value followed by a CALLCODE with value 7 and a CALL
\* without value.
C12_Witness ==
    /\ Len(heap) = 3 /\ opens[1].start /\ opens[1].value.nil
    /\ opens[2].typ = CALLCODE /\ heap[2].Type = "CALLCODE" /\ opens[2].value = Int256(7)
    /\ opens[3].typ = CALL /\ ~opens[3].start /\ opens[3].value.nil

\* C13: every STATICCALL or DELEGATECALL entry has its Value absent, whatever
\* value came with the on-enter.
C13_StaticAndDelegateNoValue ==
    \A p \in 1..Len(heap) :
        /\ opens[p].typ \in {STATICCALL, DELEGATECALL} =>
              heap[p].Type = opens[p].typ /\ heap[p].Value = NilInt
        /\ heap[p].Type \in {"STATICCALL", "DELEGATECALL"} => heap[p].Value = NilInt

\* A STATICCALL entered with value 7, a DELEGATECALL with value 0 and a
\* STATICCALL without value.
C13_Witness ==
    /\ Len(heap) = 3
    /\ heap[1].Type = "STATICCALL" /\ opens[1].value = Int256(7)
    /\ heap[2].Type = "DELEGATECALL" /\ opens[2].value = Int256(0)
    /\ heap[3].Type = "STATICCALL" /\ opens[3].value.nil

IsUnknown(n) == n.op = "enter" /\ n.typ = EXTCALL

\* C14: an on-enter with an opcode no branch names does not panic: it
\* creates an UNKNOWN entry at the depth of the new call and pushes it on
\* the stack; and in a well-formed stream, whatever the kinds, every open
\* call is on the stack, every entry but a SELFDESTRUCT one has its nesting
\* as depth, and every entry holds the payload of its own close.
C14_UnknownKeepsPairing ==
    /\ [][(Notified /\ IsUnknown(last')) =>
              /\ ~panicked'
              /\ heap' = Append(heap, TraceEntry("UNKNOWN", depth + 1, last'.from, last'.to,
                                                 ToBig(last'.value), Bytes(last'.input.bytes),
                                                 NilBytes))
              /\ stack' = Append(stack, Len(heap) + 1)]_vars
    /\ [](wf => \A p \in 1..Len(heap) :
              /\ opens[p].typ # SELFDESTRUCT => heap[p].Depth = opens[p].enclosing
              /\ opens[p].closed => heap[p].Output = Bytes(opens[p].payload.bytes)
              /\ ~opens[p].closed => heap[p].Output = NilBytes /\ p \in Range(stack)
              /\ opens[p].closed => p \notin Range(stack))

\* onStart, onEnter(EXTCALL) without value, onExit with a payload: the
\* UNKNOWN entry holds the payload and only the top-level call is pending.
C14_Witness ==
    /\ wf /\ nev = 3 /\ last.op = "exit" /\ ~panicked
    /\ Len(heap) = 2 /\ stack = <<1>> /\ depth = 0
    /\ opens[2].value.nil /\ heap[2].Type = "UNKNOWN" /\ heap[2].Depth = 1
    /\ heap[2].Value = NilInt
    /\ heap[2].Output = Bytes(<<1>>) /\ heap[1].Output = NilBytes

\* C16 as claimed: an on-enter of kind CREATE or CREATE2 without value ends
\* in a fatal error instead of producing an entry.
C16_CreateWithoutValueFails ==
    (last.op = "enter" /\ last.typ \in {CREATE, CREATE2} /\ last.value.nil) => panicked

\* C15: the payloads of an entry are copies: when the engine overwrites the
\* buffer it passed, no entry changes, so every entry keeps as input the
\* bytes passed when it was opened and as output the bytes passed when it
\* was closed.
C15_PayloadsAreCopies ==
    /\ [][buf' # buf => heap' = heap]_vars
    /\ [](\A p \in 1..Len(heap) :
              /\ opens[p].typ # SELFDESTRUCT => heap[p].Input = Bytes(opens[p].input.bytes)
              /\ opens[p].closed => heap[p].Output = Bytes(opens[p].payload.bytes))

\* An entry opened and closed with slices of the engine's buffer, which the
\* engine has overwritten since.
C15_Witness ==
    \E p \in 1..Len(heap) :
        /\ opens[p].input.buf = 1 /\ heap[p].Input.bytes # buf
        /\ opens[p].closed /\ opens[p].payload.buf = 1 /\ heap[p].Output.bytes # buf

\* C17: the output sequence is append-only and chronological: a step keeps
\* it or adds one entry at its end, only an on-start or on-enter adds, and
\* its entries are in the order in which they were opened.
C17_AppendOnlyChronological ==
    /\ [][/\ Len(Results') \in {Len(Results), Len(Results) + 1}
          /\ SubSeq(Results', 1, Len(Results)) = Results
          /\ Len(Results') = Len(Results) + 1 =>
                /\ Notified /\ last'.op \in {"start", "enter"}
                /\ Results'[Len(Results')] = Len(heap')
                /\ Len(heap') = Len(heap) + 1
          /\ (Notified /\ IsClose(last')) => Results' = Results]_vars
    /\ [](\A i, j \in 1..Len(Results) : i < j => Results[i] < Results[j])

\* Three entries in the output sequence, the second closed before the third
\* was opened, with a precompiled call opened in between.
C17_Witness ==
    /\ Len(Results) = 3 /\ Results[3] > Results[2] + 1
    /\ opens[Results[2]].closed /\ ~opens[Results[3]].closed
    /\ IsClose(last)

RECURSIVE VisibleAncestor(_)
\* The nearest call, from call p outwards, that is not precompiled; 0 when
\* there is none.
VisibleAncestor(p) ==
    IF p = 0 THEN 0
    ELSE IF ~opens[p].precompile THEN p
    ELSE VisibleAncestor(opens[p].parent)

\* C18 as claimed: in a well-formed stream a SELFDESTRUCT entry created
\* while the innermost open call is precompiled has the depth of that call's
\* nearest visible ancestor plus one.
C18_DepthFromVisibleAncestor ==
    wf => \A p \in 1..Len(heap) :
            (/\ opens[p].typ = SELFDESTRUCT
             /\ opens[p].parent # 0
             /\ opens[opens[p].parent].precompile
             /\ VisibleAncestor(opens[p].parent) # 0)
            => heap[p].Depth = heap[VisibleAncestor(opens[p].parent)].Depth + 1

\* The first notification was the only on-start so far.
StartedOnce ==
    /\ Len(opens) >= 1 /\ opens[1].start
    /\ \A p \in 2..Len(opens) : ~opens[p].start

\* C19 as claimed: after an on-start on a fresh tracer, as long as no close
\* found the stack empty, depth is the length of the stack minus one.
C19_DepthTracksStack ==
    (StartedOnce /\ ~(panicked /\ IsClose(last))) => depth = Len(stack) - 1

\* C19 as amended: after a single on-start on a fresh tracer, as long as no
\* notification panicked (no close on an empty stack, no self-destruct with
\* an empty output sequence), depth is the length of the stack minus one.
C19_DepthTracksStackUnlessPanic ==
    (StartedOnce /\ ~panicked) => depth = Len(stack) - 1

\* The stack has been emptied again and depth is -1.
C19_Witness ==
    StartedOnce /\ ~panicked /\ IsClose(last) /\ stack = <<>> /\ depth = -1

====
